---- MODULE Spec2Model ----
(***************************************************************************)
(* State-machine model of the group-chat travel planner:                   *)
(*   - the LangGraph orchestrator (api/group_chat/orchestrator.py),        *)
(*   - the REST router (api/group_chat/api.py),                            *)
(*   - the approval / booking handlers of main.py,                         *)
(*   - the session row and the approval aggregation of database.py,        *)
(*   - the plan-booking endpoint of api/agent_service.py.                  *)
(* One session is modelled.  Spec runs the orchestrator as example.py does, *)
(* one graph step per action.  SpecServer runs the handlers of the server: *)
(* run_volley is a synchronous call made from an async handler, so a       *)
(* handler that runs the graph holds the event loop until the graph has    *)
(* ended, and each handler is one action.  SpecValidate applies            *)
(* _validate_plan to every document, SpecApproval applies                  *)
(* update_approval_state to every argument, SpecInbound runs the link and  *)
(* webhook handlers with any message id, SpecBooking runs                  *)
(* trigger_parallel_bookings one coroutine step per action, SpecRound runs *)
(* one round of every size the start request accepts under the graph's     *)
(* superstep limit, SpecRevisions revises a session's plan twice, and      *)
(* SpecConcurrent runs the participants' approvals in worker processes     *)
(* whose update_approval_state calls interleave.                           *)
(***************************************************************************)
EXTENDS Integers, Sequences, FiniteSets, TLC

\* ------------------------------------------------------------------ bounds
MaxUsers == 3
MaxK == 2
MaxVolleys == 2
MaxBookings == 2
\* the server session: participants, and rejection rounds
MaxParticipants == 2
MaxRevisions == 1
\* the approval tracker alone: calls made on one row
MaxDecisions == 3

\* ------------------------------------------------------------------ values
Null == "null"
NoUser == 0
SystemUser == 0
Feedbacks == {"f1", "f2"}

Range(s) == {s[i] : i \in 1..Len(s)}

\* ------------------------------------------------- synthesized documents
\* A value of the JSON document the master planner's LLM call returns.
FieldValues == {"absent", "empty", "value"}

Subfields(field) ==
    CASE field = "dates" -> <<"departure_date", "return_date">>
      [] field = "flight" -> <<"origin", "destination">>
      [] field = "hotel" -> <<"location", "type">>
      [] field = "budget" -> <<"total_per_person">>
      [] OTHER -> <<>>

required_fields == <<"dates", "flight", "hotel", "budget", "location">>

Groups == {"dates", "flight", "hotel", "budget"}

\* A group is absent, null (not a container) or an object whose subfields are
\* absent, empty ("") or filled.
GroupValues(field) ==
    {[kind |-> "absent", sub |-> [f \in Range(Subfields(field)) |-> "absent"]],
     [kind |-> "null", sub |-> [f \in Range(Subfields(field)) |-> "absent"]]}
    \cup {[kind |-> "object", sub |-> s] : s \in [Range(Subfields(field)) -> FieldValues]}

Docs ==
    [dates : GroupValues("dates"), flight : GroupValues("flight"),
     hotel : GroupValues("hotel"), budget : GroupValues("budget"),
     location : FieldValues]

FullGroup(field) == [kind |-> "object", sub |-> [f \in Range(Subfields(field)) |-> "value"]]

GoodDoc ==
    [dates |-> FullGroup("dates"), flight |-> FullGroup("flight"),
     hotel |-> FullGroup("hotel"), budget |-> FullGroup("budget"),
     location |-> "value"]

MissingHotelLocationDoc ==
    [GoodDoc EXCEPT !.hotel = [kind |-> "object",
                               sub |-> [f \in {"location", "type"} |->
                                           IF f = "location" THEN "absent" ELSE "value"]]]

\* Mutant of HasKey: every key is taken to be present.
HasKeyAlways(plan, field) == TRUE

\* "field in plan"
HasKey(plan, field) ==
    IF field = "location" THEN plan.location # "absent" ELSE plan[field].kind # "absent"

\* The subfields of one present group that "subfield not in plan[field]" reports.
RECURSIVE MissingSubfields(_, _, _)
MissingSubfields(plan, field, i) ==
    IF i > Len(Subfields(field)) THEN <<>>
    ELSE (IF plan[field].sub[Subfields(field)[i]] = "absent"
          THEN <<<<field, Subfields(field)[i]>>>> ELSE <<>>)
         \o MissingSubfields(plan, field, i + 1)

\* The list "missing" after the loop over required_fields from position i on.
RECURSIVE MissingFrom(_, _)
MissingFrom(plan, i) ==
    IF i > Len(required_fields) THEN <<>>
    ELSE LET field == required_fields[i] IN
         (IF ~HasKey(plan, field) THEN <<<<field>>>>
          ELSE IF Len(Subfields(field)) > 0 THEN MissingSubfields(plan, field, 1)
          ELSE <<>>)
         \o MissingFrom(plan, i + 1)

\* "subfield not in plan[field]" raises TypeError when plan[field] is null.
ValidateRaises(plan) == \E field \in Groups : plan[field].kind = "null"

validate_plan(plan) ==
    IF ValidateRaises(plan)
    THEN [raised |-> TRUE, is_valid |-> FALSE, missing |-> <<>>]
    ELSE [raised |-> FALSE, is_valid |-> MissingFrom(plan, 1) = <<>>,
          missing |-> MissingFrom(plan, 1)]

NotValidated == [raised |-> FALSE, is_valid |-> FALSE, missing |-> <<<<"not validated">>>>]


\* ------------------------------------------------------------------ plans
\* current_plan: None, a validated plan, or one of the two error dicts.
\* plan_id stands for the uuid and created_at for the creation time: both are
\* the value of the clock "now" when the synthesis ran.
NoPlan == [kind |-> "none", plan_id |-> 0, created_at |-> 0, status |-> "none", details |-> <<>>]

ValidationErrorPlan(missing) ==
    [kind |-> "validation_error", plan_id |-> 0, created_at |-> 0, status |-> "error",
     details |-> missing]

ParseErrorPlan(clock) ==
    [kind |-> "parse_error", plan_id |-> clock, created_at |-> 0, status |-> "error",
     details |-> <<>>]

DraftPlan(clock) ==
    [kind |-> "plan", plan_id |-> clock, created_at |-> clock, status |-> "draft",
     details |-> <<>>]

\* "x.get('current_plan')" is truthy
HasPlan(plan) == plan.kind # "none"

\* Mutant of PlanGenerated: only "current_plan" is tested, an error dict passes.
PlanGeneratedTruthy(plan) == plan.kind # "none"

\* "current_plan and 'error' not in current_plan"
PlanGenerated(plan) == plan.kind = "plan"

\* ------------------------------------------------------------- LLM gateway
\* What the synthesis call can return in the session model: text that parses
\* to a complete document, to one without hotel.location, to one whose hotel
\* is null, or that is no JSON.
NullHotelDoc == [GoodDoc EXCEPT !.hotel.kind = "null"]

SynthOutputs ==
    {[parseable |-> TRUE, doc |-> GoodDoc],
     [parseable |-> TRUE, doc |-> MissingHotelLocationDoc],
     [parseable |-> TRUE, doc |-> NullHotelDoc],
     [parseable |-> FALSE, doc |-> GoodDoc]}

\* ------------------------------------------------------------ graph state
AIMessage(user) == [type |-> "ai", name |-> user, content |-> <<>>]

SystemMessage(user_id, feedback) ==
    [type |-> "system", name |-> NoUser, content |-> <<user_id, feedback>>]

\* The channels a state key can get: the annotation of "messages" is the
\* string "add_messages", not the function, and which of the two the graph
\* builds from it is fixed by the installed library.
Channels == {"BinaryOperatorAggregate", "LastValue"}

VARIABLE
    messages_channel       \* the channel StateGraph(GroupChatState) built for "messages"

\* The update "right" of a node merged into the value "left" of "messages".
add_messages(left, right) ==
    IF messages_channel = "BinaryOperatorAggregate" THEN left \o right ELSE right

InitialState(uids, k) ==
    [messages |-> <<>>,
     current_volley |-> 0,
     messages_per_agent |-> k,
     active_agent |-> NoUser,
     agent_message_counts |-> [u \in Range(uids) |-> 0],
     current_agent_index |-> 0,
     total_turns |-> 0,
     current_plan |-> NoPlan,
     rejection_feedback |-> Null,
     is_complete |-> FALSE]

MasterPlanner == 0

\* Mutant of route_supervisor: the cursor is ignored, the first participant always speaks.
route_supervisor_first(s, uids, k) ==
    IF s.total_turns >= Len(uids) * k THEN MasterPlanner ELSE uids[1]

\* Mutant of route_supervisor: synthesis is signalled one turn late.
route_supervisor_late(s, uids, k) ==
    IF s.total_turns > Len(uids) * k
    THEN MasterPlanner
    ELSE uids[(s.current_agent_index % Len(uids)) + 1]

\* Mutant of route_supervisor: synthesis is signalled one turn early.
route_supervisor_early(s, uids, k) ==
    IF s.total_turns + 1 >= Len(uids) * k
    THEN MasterPlanner
    ELSE uids[(s.current_agent_index % Len(uids)) + 1]

\* Mutant of route_supervisor: the speaker is taken from the transcript's length,
\* not from the cursor the state carries.
route_supervisor_by_transcript(s, uids, k) ==
    IF s.total_turns >= Len(uids) * k
    THEN MasterPlanner
    ELSE uids[(Len(s.messages) % Len(uids)) + 1]

\* The conditional edge: the master planner (0) or the next agent's user id.
route_supervisor(s, uids, k) ==
    IF s.total_turns >= Len(uids) * k
    THEN MasterPlanner
    ELSE uids[(s.current_agent_index % Len(uids)) + 1]

\* Mutant of agent_prompt: the feedback is shown on the first turn of a round only.
agent_prompt_first_turn_only(s, user) ==
    [node |-> user,
     role |-> IF s.total_turns = 0 THEN "initiator" ELSE "negotiator",
     shows |-> IF s.total_turns = 0 THEN {} ELSE {"current_plan", "history"},
     rejection_feedback |-> IF s.rejection_feedback \notin {Null, ""} /\ s.total_turns = 0
                            THEN s.rejection_feedback ELSE Null]

\* The system prompt agent_node builds for "user" from the state: the role
\* (is_first = total_turns == 0), what the role's text shows of the state, and
\* the rejection feedback that is appended when the state has one.
agent_prompt(s, user) ==
    [node |-> user,
     role |-> IF s.total_turns = 0 THEN "initiator" ELSE "negotiator",
     shows |-> IF s.total_turns = 0 THEN {} ELSE {"current_plan", "history"},
     rejection_feedback |-> IF s.rejection_feedback \notin {Null, ""}
                            THEN s.rejection_feedback ELSE Null]

\* The system prompt _master_planner_node builds: the whole chat history.
\* "for msg in messages[-20:]": the history text is built from the last 20
\* messages of the state.
HistoryWindow == 20

history_text(messages) ==
    IF Len(messages) <= HistoryWindow THEN messages
    ELSE SubSeq(messages, Len(messages) - HistoryWindow + 1, Len(messages))

\* The messages an agent's system prompt carries: the initiator prompt has no
\* history section, the negotiator prompt has history_text.
prompt_history(s) == IF s.total_turns = 0 THEN <<>> ELSE history_text(s.messages)

planner_prompt(s) ==
    [node |-> MasterPlanner, role |-> "planner", shows |-> {"history"},
     rejection_feedback |-> Null]

\* One self.llm.invoke call: its prompt, and whether it returned.
LLMCall(prompt, ok) == [prompt |-> prompt, ok |-> ok]

\* The state after the agent node of "user" has run and its update is merged.
\* Mutant of agent_node: the turn is counted in total_turns only.
agent_node_uncounted(s, user) ==
    [s EXCEPT !.messages = add_messages(@, <<AIMessage(user)>>),
              !.total_turns = @ + 1,
              !.current_agent_index = @ + 1,
              !.active_agent = user]

agent_node(s, user) ==
    [s EXCEPT !.messages = add_messages(@, <<AIMessage(user)>>),
              !.agent_message_counts = [@ EXCEPT ![user] = @ + 1],
              !.total_turns = @ + 1,
              !.current_agent_index = @ + 1,
              !.active_agent = user]

\* Mutant of master_planner_node: a validation failure completes the round too.
master_planner_node_completes(s, out, clock) ==
    IF ~out.parseable
    THEN [s EXCEPT !.current_plan = ParseErrorPlan(clock), !.is_complete = TRUE]
    ELSE IF ~validate_plan(out.doc).is_valid
    THEN [s EXCEPT !.current_plan = ValidationErrorPlan(validate_plan(out.doc).missing),
                   !.is_complete = TRUE]
    ELSE [s EXCEPT !.current_plan = DraftPlan(clock), !.is_complete = TRUE]

\* The state after the master planner node has run on LLM output "out"
\* (validate_plan did not raise).
master_planner_node(s, out, clock) ==
    IF ~out.parseable
    THEN [s EXCEPT !.current_plan = ParseErrorPlan(clock), !.is_complete = TRUE]
    ELSE IF ~validate_plan(out.doc).is_valid
    THEN [s EXCEPT !.current_plan = ValidationErrorPlan(validate_plan(out.doc).missing),
                   !.is_complete = FALSE]
    ELSE [s EXCEPT !.current_plan = DraftPlan(clock), !.is_complete = TRUE]

\* Mutant of handle_rejection: the turn counters are not reset.
handle_rejection_keeps_turns(current_state, feedback, user_id, uids) ==
    [current_state EXCEPT
        !.messages = Append(@, SystemMessage(user_id, feedback)),
        !.rejection_feedback = feedback,
        !.current_volley = @ + 1,
        !.agent_message_counts = [u \in Range(uids) |-> 0],
        !.current_agent_index = 0,
        !.is_complete = FALSE]

\* Mutant of handle_rejection: current_plan is cleared.
handle_rejection_clears_plan(current_state, feedback, user_id, uids) ==
    [current_state EXCEPT
        !.messages = Append(@, SystemMessage(user_id, feedback)),
        !.rejection_feedback = feedback,
        !.current_volley = @ + 1,
        !.agent_message_counts = [u \in Range(uids) |-> 0],
        !.current_agent_index = 0,
        !.total_turns = 0,
        !.current_plan = NoPlan,
        !.is_complete = FALSE]

\* The dict handle_rejection returns.
handle_rejection(current_state, feedback, user_id, uids) ==
    [current_state EXCEPT
        !.messages = Append(@, SystemMessage(user_id, feedback)),
        !.rejection_feedback = feedback,
        !.current_volley = @ + 1,
        !.agent_message_counts = [u \in Range(uids) |-> 0],
        !.current_agent_index = 0,
        !.total_turns = 0,
        !.is_complete = FALSE]

\* The dict passed to handle_rejection, after the call: copy() is shallow, so
\* the append went to the list both dicts hold.
handle_rejection_argument(current_state, feedback, user_id) ==
    [current_state EXCEPT !.messages = Append(@, SystemMessage(user_id, feedback))]

\* The rejections a held state has seen: each handle_rejection call appends
\* one system message to the list the held dict shares, and a round that is
\* then run to its end also leaves current_volley one higher.
RejectionsApplied(s) ==
    LET notices == Cardinality({i \in 1..Len(s.messages) : s.messages[i].type = "system"})
    IN  IF s.current_volley > notices THEN s.current_volley ELSE notices



\* -------------------------------------------------------------- variables
\* graph.invoke(initial_state) is called without a config, so the graph runs
\* under the library's default superstep limit.  The default is 25 in the
\* LangGraph releases the code was written against; a build may raise it
\* (LANGGRAPH_DEFAULT_RECURSION_LIMIT, or a release with a higher default).
DEFAULT_RECURSION_LIMIT == 25

\* The rounds of SpecRound: the start request accepts 1..50 messages per volley.
MaxRoundUsers == 3
MaxMessagesPerVolley == 50

\* A raised limit: more supersteps than any round of the model takes.
RaisedRecursionLimit == MaxRoundUsers * MaxMessagesPerVolley + 1

RecursionLimits == {DEFAULT_RECURSION_LIMIT, RaisedRecursionLimit}

VARIABLES
    user_ids,              \* orchestrator.user_ids, in registration order
    messages_per_volley,   \* orchestrator.messages_per_volley
    pc,                    \* position of the script: "idle", "route", "agent", "planner", "finish", "crashed"
    node,                  \* the node the last route_supervisor call selected
    state,                 \* the GroupChatState of the running graph
    active_states,         \* api.active_states[session_id] (example.py: final_state): <<>> or <<state>>
    active_orchestrators,  \* session_id in api.active_orchestrators
    db_session,            \* the GroupChatSessionDB row
    message_mappings,      \* the MessageMappingDB rows
    now,                   \* clock: the number of syntheses run so far
    bookings,              \* the runs of the booking pipeline, in order
    response,              \* what the last handler returned
    route_log,             \* route_supervisor's decisions in the current run_volley call
    turn_log,              \* the active_agent values written in the current run_volley call
    llm_calls,             \* the self.llm.invoke calls of the current run_volley call
    plan_dict,             \* the parsed document _validate_plan is called on
    validation,            \* what that call did: NotValidated, or its outcome
    decisions,             \* the update_approval_state calls made on the row, in order
    users,                 \* the UserDB rows of the registered ids: user_id -> profile
    budget_per_person,     \* the stored plan has the key budget.per_person
    dispatch_pc,           \* trigger_parallel_bookings: "none", "gather", "aggregated", "returned"
    tasks,                 \* the book_for_user coroutines gather was given, in order
    run_task_calls,        \* the users flight_agent.run_task was called for
    recursion_limit,       \* the superstep limit graph.invoke runs under
    record_calls           \* the update_approval_state calls in progress: user_id -> call

vars == <<user_ids, messages_per_volley, pc, node, state, active_states,
          active_orchestrators, db_session, message_mappings, now, bookings, response,
          route_log, turn_log, plan_dict, validation, messages_channel,
          decisions, users, budget_per_person, dispatch_pc, tasks, run_task_calls,
          llm_calls, recursion_limit, record_calls>>

validated == <<plan_dict, validation>>
approvals == <<decisions>>
concurrent == <<record_calls>>
booking == <<users, budget_per_person, dispatch_pc, tasks, run_task_calls>>
aside == <<validated, approvals, booking, concurrent>>
config == <<user_ids, messages_per_volley, messages_channel, recursion_limit>>
graph == <<pc, node, state, route_log, turn_log, llm_calls>>
server == <<active_states, active_orchestrators, db_session, message_mappings, bookings>>
logs == <<route_log, turn_log, llm_calls>>

\* ------------------------------------------------------------ the session row
EmptyMap == [u \in {} |-> 0]

NoRow ==
    [status |-> "absent", final_plan |-> NoPlan, current_volley |-> 0,
     approval_state |-> EmptyMap, chat_history |-> <<>>, messages_per_agent |-> 0]

\* create_session
create_session(k) ==
    [status |-> "active", final_plan |-> NoPlan, current_volley |-> 0,
     approval_state |-> EmptyMap, chat_history |-> <<>>, messages_per_agent |-> k]

RowExists(row) == row.status # "absent"

\* update_chat_session: a None argument leaves the column as it is.  "plan" is
\* never None where it is passed; the other arguments are given as sequences of
\* at most one value.
update_chat_session(row, chat_history, final_plan, status, current_volley) ==
    IF ~RowExists(row) THEN row
    ELSE [row EXCEPT
            !.chat_history = IF chat_history = <<>> THEN @ ELSE chat_history[1],
            !.final_plan = IF final_plan = <<>> THEN @ ELSE final_plan[1],
            !.status = IF status = <<>> THEN @ ELSE status[1],
            !.current_volley = IF current_volley = <<>> THEN @ ELSE current_volley[1]]

\* -------------------------------------------------------------- responses
\* What a handler answered: the status code, the "status" field or page title of
\* the body where the handler sets one, the message id the event carried, and
\* the two flags where update_approval_state was called.
\* No email reply came with the request.
NoReply == <<>>

Resp(op, code) ==
    [op |-> op, code |-> code, all_approved |-> FALSE, any_rejected |-> FALSE,
     status |-> Null, message_id |-> Null, segment |-> Null, force |-> FALSE,
     reply |-> NoReply]

\* ------------------------------------------------------------------- Init
Init ==
    /\ user_ids = <<>>
    /\ messages_per_volley = 0
    /\ pc = "idle"
    /\ node = MasterPlanner
    /\ state = InitialState(<<>>, 0)
    /\ active_states = <<>>
    /\ active_orchestrators = FALSE
    /\ db_session = NoRow
    /\ message_mappings = {}
    /\ now = 0
    /\ bookings = <<>>
    /\ response = Resp("none", 0)
    /\ route_log = <<>>
    /\ turn_log = <<>>
    /\ llm_calls = <<>>
    /\ decisions = <<>>
    /\ record_calls = EmptyMap
    /\ users = EmptyMap
    /\ budget_per_person = FALSE
    /\ dispatch_pc = "none"
    /\ tasks = <<>>
    /\ run_task_calls = {}
    /\ messages_channel \in Channels
    /\ recursion_limit = DEFAULT_RECURSION_LIMIT
    /\ plan_dict = GoodDoc
    /\ validation = NotValidated

Registration(n) == [i \in 1..n |-> i]

\* ---------------------------------------------------- the graph, step by step
\* graph.invoke(initial_state): enter at START, whose conditional edge is route_supervisor.
Invoke(initial_state) ==
    /\ state' = initial_state
    /\ pc' = "route"
    /\ node' = MasterPlanner
    /\ route_log' = <<>>
    /\ turn_log' = <<>>
    /\ llm_calls' = <<>>

\* The supersteps graph.invoke has run: one per node executed.  Only agent
\* nodes can precede another node, and each writes one active_agent.
Supersteps == Len(turn_log)

\* A conditional edge is evaluated.
Route ==
    /\ pc = "route"
    /\ node' = route_supervisor(state, user_ids, messages_per_volley)
    /\ pc' = IF node' = MasterPlanner THEN "planner" ELSE "agent"
    /\ route_log' = Append(route_log, node')
    /\ UNCHANGED <<aside, config, state, server, now, response, turn_log, llm_calls>>

\* An agent node runs: one LLM call, then the update is merged.
AgentNode ==
    /\ pc = "agent"
    /\ Supersteps < recursion_limit
    /\ state' = agent_node(state, node)
    /\ turn_log' = Append(turn_log, state'.active_agent)
    /\ llm_calls' = Append(llm_calls, LLMCall(agent_prompt(state, node), TRUE))
    /\ pc' = "route"
    /\ UNCHANGED <<aside, config, node, server, now, response, route_log>>

\* The master planner node runs: one LLM call, parse, validate; the graph ends.
\* A TypeError of validate_plan leaves the node, the graph and the script.
MasterPlannerNode ==
    /\ pc = "planner"
    /\ Supersteps < recursion_limit
    /\ \E out \in SynthOutputs :
          IF out.parseable /\ validate_plan(out.doc).raised
          THEN /\ pc' = "crashed"
               /\ response' = Resp("example", 500)
               /\ UNCHANGED <<state, now>>
          ELSE /\ state' = master_planner_node(state, out, now + 1)
               /\ now' = now + 1
               /\ pc' = "finish"
               /\ UNCHANGED response
    /\ llm_calls' = Append(llm_calls, LLMCall(planner_prompt(state), TRUE))
    /\ UNCHANGED <<aside, config, node, server, route_log, turn_log>>

\* Mutant of GatewayFailure: the exception is swallowed and the node is run again.
GatewayFailure_retried ==
    /\ pc \in {"agent", "planner"}
    /\ llm_calls' = Append(llm_calls,
                           LLMCall(IF pc = "agent" THEN agent_prompt(state, node)
                                   ELSE planner_prompt(state), FALSE))
    /\ UNCHANGED <<aside, config, pc, node, state, server, now, response, route_log, turn_log>>

\* llm.invoke raises in a node: the exception leaves graph.invoke, run_volley and
\* the script.
GatewayFailure ==
    /\ pc \in {"agent", "planner"}
    /\ Supersteps < recursion_limit
    /\ llm_calls' = Append(llm_calls,
                           LLMCall(IF pc = "agent" THEN agent_prompt(state, node)
                                   ELSE planner_prompt(state), FALSE))
    /\ pc' = "crashed"
    /\ response' = Resp("example", 500)
    /\ UNCHANGED <<aside, config, node, state, server, now, route_log, turn_log>>

\* The next node is due after recursion_limit supersteps: graph.invoke raises
\* GraphRecursionError, which leaves run_volley and the caller.
GraphRecursionError ==
    /\ pc \in {"agent", "planner"}
    /\ Supersteps >= recursion_limit
    /\ pc' = "crashed"
    /\ response' = Resp("example", 500)
    /\ UNCHANGED <<aside, config, node, state, server, now, logs>>

\* --------------------------------------------------------------- example.py
\* orchestrator = GroupChatOrchestrator(users, k); final_state = orchestrator.run_volley()
ExampleRunVolley ==
    /\ user_ids = <<>>
    /\ pc = "idle"
    /\ \E n \in 1..MaxUsers, k \in 0..MaxK :
          /\ user_ids' = Registration(n)
          /\ messages_per_volley' = k
          /\ UNCHANGED <<messages_channel, recursion_limit>>
          /\ Invoke(InitialState(Registration(n), k))
    /\ UNCHANGED <<aside, server, now, response>>

\* final_state = ... : the script holds the final state.
ExampleFinish ==
    /\ pc = "finish"
    /\ active_states' = <<state>>
    /\ pc' = "idle"
    /\ response' = Resp("example", 200)
    /\ UNCHANGED <<aside, config, node, state, active_orchestrators, db_session, message_mappings,
                   bookings, now, logs>>

\* updated_state = orchestrator.handle_rejection(final_state, feedback, user_ids[0]);
\* orchestrator.run_volley(initial_state=updated_state)
ExampleRejection ==
    /\ pc = "idle"
    /\ active_states # <<>>
    /\ RejectionsApplied(active_states[1]) < MaxVolleys
    /\ \E feedback \in Feedbacks :
          /\ active_states' =
                <<handle_rejection_argument(active_states[1], feedback, user_ids[1])>>
          /\ Invoke(handle_rejection(active_states[1], feedback, user_ids[1], user_ids))
    /\ UNCHANGED <<aside, config, active_orchestrators, db_session, message_mappings, bookings,
                   now, response>>

Next ==
    \/ ExampleRunVolley
    \/ Route
    \/ AgentNode
    \/ MasterPlannerNode
    \/ GatewayFailure
    \/ ExampleFinish
    \/ ExampleRejection

Spec == Init /\ [][Next]_vars

\* ------------------------------------------------- one round of a started chat
\* GroupChatOrchestrator(users, messages_per_volley) as start_group_chat builds
\* it: at least two users, messages_per_volley within 1..50
\* (StartGroupChatRequest), then run_volley() from a fresh state with every LLM
\* call returning.
InitRound ==
    /\ \E n \in 2..MaxRoundUsers : user_ids = Registration(n)
    /\ messages_per_volley \in 1..MaxMessagesPerVolley
    /\ recursion_limit \in RecursionLimits
    /\ messages_channel \in Channels
    /\ pc = "idle"
    /\ node = MasterPlanner
    /\ state = InitialState(user_ids, messages_per_volley)
    /\ active_states = <<>>
    /\ active_orchestrators = TRUE
    /\ db_session = NoRow
    /\ message_mappings = {}
    /\ now = 0
    /\ bookings = <<>>
    /\ response = Resp("none", 0)
    /\ route_log = <<>>
    /\ turn_log = <<>>
    /\ llm_calls = <<>>
    /\ decisions = <<>>
    /\ record_calls = EmptyMap
    /\ users = EmptyMap
    /\ budget_per_person = FALSE
    /\ dispatch_pc = "none"
    /\ tasks = <<>>
    /\ run_task_calls = {}
    /\ plan_dict = GoodDoc
    /\ validation = NotValidated

\* final_state = orchestrator.run_volley()
RunVolley ==
    /\ pc = "idle"
    /\ active_states = <<>>
    /\ Invoke(InitialState(user_ids, messages_per_volley))
    /\ UNCHANGED <<aside, config, server, now, response>>

NextRound ==
    \/ RunVolley
    \/ Route
    \/ AgentNode
    \/ MasterPlannerNode
    \/ GraphRecursionError
    \/ ExampleFinish

SpecRound == InitRound /\ [][NextRound]_vars

\* ------------------------------------------------ _validate_plan on any document
InitValidate ==
    /\ plan_dict \in Docs
    /\ validation = NotValidated
    /\ messages_channel = "LastValue"
    /\ recursion_limit = DEFAULT_RECURSION_LIMIT
    /\ user_ids = <<>>
    /\ messages_per_volley = 0
    /\ pc = "idle"
    /\ node = MasterPlanner
    /\ state = InitialState(<<>>, 0)
    /\ active_states = <<>>
    /\ active_orchestrators = FALSE
    /\ db_session = NoRow
    /\ message_mappings = {}
    /\ now = 0
    /\ bookings = <<>>
    /\ response = Resp("none", 0)
    /\ route_log = <<>>
    /\ turn_log = <<>>
    /\ llm_calls = <<>>
    /\ decisions = <<>>
    /\ record_calls = EmptyMap
    /\ users = EmptyMap
    /\ budget_per_person = FALSE
    /\ dispatch_pc = "none"
    /\ tasks = <<>>
    /\ run_task_calls = {}

\* is_valid, error_msg = self._validate_plan(plan_dict)
Validate ==
    /\ validation = NotValidated
    /\ validation' = validate_plan(plan_dict)
    /\ UNCHANGED <<concurrent, plan_dict, approvals, booking, config, graph, server, now, response>>

NextValidate == Validate

SpecValidate == InitValidate /\ [][NextValidate]_vars

\* ============================================================== the server
\* graph.invoke to its end: the agent turns the supervisor schedules, in order.
RECURSIVE RunTurns(_, _, _)
RunTurns(s, uids, k) ==
    IF route_supervisor(s, uids, k) = MasterPlanner THEN s
    ELSE RunTurns(agent_node(s, route_supervisor(s, uids, k)), uids, k)

\* run_volley(initial_state) when no call raises: the final state.
run_volley(initial_state, uids, k, out, clock) ==
    master_planner_node(RunTurns(initial_state, uids, k), out, clock)

\* run_volley raises: an LLM call failed, or _validate_plan raised.
RunRaises(out, fails) == fails \/ (out.parseable /\ validate_plan(out.doc).raised)

\* ------------------------------------------------------- approval tracker
\* Mutant of Upsert: an entry already stored for the key is kept.
Upsert_keeps_first(map, key, value) ==
    [x \in (DOMAIN map) \cup {key} |-> IF x \in DOMAIN map THEN map[x] ELSE value]

\* approval_state[user_id] = {...}
Upsert(map, key, value) == [x \in (DOMAIN map) \cup {key} |-> IF x = key THEN value ELSE map[x]]

\* update_approval_state: the row after the commit.  The timestamp is the clock.
update_approval_state(row, user_id, approved, feedback, clock) ==
    [row EXCEPT !.approval_state =
        Upsert(@, user_id, [approved |-> approved, feedback |-> feedback, timestamp |-> clock])]

\* Mutant of all_approved: some participant has approved.
all_approved_some(approval_state, uids) ==
    \E uid \in Range(uids) :
        uid \in DOMAIN approval_state /\ approval_state[uid].approved

\* Mutant of all_approved: N approving entries, whoever they are from.
all_approved_counted(approval_state, uids) ==
    Cardinality({u \in DOMAIN approval_state : approval_state[u].approved}) >= Len(uids)

\* all(approval_state.get(uid, {}).get("approved", False) for uid in user_ids)
all_approved(approval_state, uids) ==
    \A uid \in Range(uids) :
        uid \in DOMAIN approval_state /\ approval_state[uid].approved

\* The truth value Python gives a feedback argument: None and "" are false.
Truthy(feedback) == feedback \notin {Null, ""}

\* any(... .get("approved") == False and ... .get("feedback") for uid in user_ids)
any_rejected(approval_state, uids) ==
    \E uid \in Range(uids) :
        /\ uid \in DOMAIN approval_state
        /\ ~approval_state[uid].approved
        /\ Truthy(approval_state[uid].feedback)

RecordResp(op, row, uids) ==
    [op |-> op, code |-> 200,
     all_approved |-> all_approved(row.approval_state, uids),
     any_rejected |-> any_rejected(row.approval_state, uids),
     status |-> Null, message_id |-> Null, segment |-> Null, force |-> FALSE,
     reply |-> NoReply]

\* The participants whose stored decision approves the plan "plan": approved, and
\* recorded since that plan was made.
ApproversOf(row, plan) ==
    {u \in DOMAIN row.approval_state :
        row.approval_state[u].approved /\ row.approval_state[u].timestamp >= plan.created_at}

\* --------------------------------------------------------- calls that bind
send_plan_email_parameters == {"to", "plan", "session_id", "user_id", "message_id", "base_url"}

\* A Python call binds when every parameter without a default gets an argument.
Binds(parameters, arguments) == parameters \subseteq arguments

\* The message id a plan email of plan "plan_id" to "user" is tracked by.
MessageId(plan_id, user) == <<plan_id, user>>

Mapping(plan_id, user) == [message_id |-> MessageId(plan_id, user), user_id |-> user]

\* ------------------------------------------------- api.py: start_group_chat
StartGroupChat ==
    /\ user_ids = <<>>
    /\ \E n \in 2..MaxParticipants, k \in 1..MaxK, out \in SynthOutputs, fails \in BOOLEAN :
          LET uids == Registration(n)
              final_state == run_volley(InitialState(uids, k), uids, k, out, now + 1) IN
          /\ user_ids' = uids
          /\ messages_per_volley' = k
          /\ UNCHANGED <<messages_channel, recursion_limit>>
          /\ active_orchestrators' = TRUE
          /\ IF RunRaises(out, fails)
             THEN /\ db_session' = create_session(k)
                  /\ response' = Resp("start", 500)
                  /\ UNCHANGED <<active_states, message_mappings, now>>
             ELSE /\ active_states' = <<final_state>>
                  /\ now' = now + 1
                  /\ IF PlanGenerated(final_state.current_plan)
                     THEN IF Binds(send_plan_email_parameters,
                                   {"to", "plan", "session_id", "user_id"})
                          THEN /\ message_mappings' = message_mappings \cup
                                      {Mapping(final_state.current_plan.plan_id, u) :
                                          u \in Range(uids)}
                               /\ db_session' = update_chat_session(create_session(k),
                                      <<final_state.messages>>, <<final_state.current_plan>>,
                                      <<"pending_approval">>, <<1>>)
                               /\ response' = Resp("start", 200)
                          ELSE \* TypeError, caught by "except Exception"
                               /\ db_session' = create_session(k)
                               /\ response' = Resp("start", 500)
                               /\ UNCHANGED message_mappings
                     ELSE /\ db_session' = update_chat_session(create_session(k),
                                 <<final_state.messages>>, <<final_state.current_plan>>,
                                 <<"error">>, <<1>>)
                          /\ response' = Resp("start", 200)
                          /\ UNCHANGED message_mappings
    /\ UNCHANGED <<aside, graph, bookings>>

\* A round may still be started within the bound on rounds.
RoundsWithin(limit) ==
    IF active_states = <<>> THEN TRUE ELSE RejectionsApplied(active_states[1]) < limit

WithinRounds == RoundsWithin(MaxRevisions)

\* The feedback text of the next rejection of the session: the texts differ
\* from one rejection to the next.
NextFeedback ==
    IF active_states = <<>> THEN "f1"
    ELSE IF RejectionsApplied(active_states[1]) % 2 = 0 THEN "f1" ELSE "f2"

\* ------------------------------------------------------ api.py: reject_plan
reject_plan ==
    /\ active_orchestrators /\ active_states # <<>>
    /\ \E user_id \in Range(user_ids), feedback \in {NextFeedback},
          out \in SynthOutputs, fails \in BOOLEAN :
          LET final_state ==
                 run_volley(handle_rejection(active_states[1], feedback, user_id, user_ids),
                            user_ids, messages_per_volley, out, now + 1) IN
          IF RunRaises(out, fails)
          THEN /\ active_states' =
                     <<handle_rejection_argument(active_states[1], feedback, user_id)>>
               /\ response' = Resp("reject_plan", 500)
               /\ UNCHANGED <<db_session, now>>
          ELSE /\ active_states' = <<final_state>>
               /\ now' = now + 1
               /\ db_session' = update_chat_session(db_session, <<final_state.messages>>,
                                     <<final_state.current_plan>>,
                                     <<IF final_state.is_complete THEN "completed"
                                       ELSE "active">>,
                                     <<final_state.current_volley + 1>>)
               /\ response' = Resp("reject_plan", 200)
    /\ UNCHANGED <<aside, config, graph, active_orchestrators, message_mappings, bookings>>

RejectPlan ==
    /\ WithinRounds
    /\ reject_plan

\* The same handler, called once more on a plan that is already a revision.
RejectRevisedPlan ==
    /\ RoundsWithin(MaxRevisions + 1)
    /\ reject_plan

\* ----------------------------------------------------- api.py: approve_plan
\* TravelPlan(**plan), built for the response after the row is updated, raises on an error dict.
ApprovePlan ==
    /\ user_ids # <<>>
    /\ IF active_states = <<>>
       THEN /\ IF ~RowExists(db_session)
               THEN response' = Resp("approve_plan", 404) /\ UNCHANGED db_session
               ELSE IF ~HasPlan(db_session.final_plan)
               THEN response' = Resp("approve_plan", 400) /\ UNCHANGED db_session
               ELSE /\ db_session' = update_chat_session(db_session, <<>>, <<>>,
                                         <<"approved">>, <<>>)
                    /\ response' = Resp("approve_plan",
                          IF PlanGenerated(db_session.final_plan) THEN 200 ELSE 500)
            /\ UNCHANGED <<active_states, active_orchestrators>>
       ELSE IF ~HasPlan(active_states[1].current_plan)
       THEN /\ response' = Resp("approve_plan", 400)
            /\ UNCHANGED <<db_session, active_states, active_orchestrators>>
       ELSE /\ db_session' = update_chat_session(db_session, <<>>,
                                 <<[active_states[1].current_plan EXCEPT !.status = "approved"]>>,
                                 <<"approved">>, <<>>)
            /\ active_orchestrators' = FALSE
            /\ active_states' = <<>>
            /\ response' = Resp("approve_plan",
                  IF PlanGenerated(active_states[1].current_plan) THEN 200 ELSE 500)
    /\ UNCHANGED <<aside, config, graph, message_mappings, bookings, now>>

\* --------------------------------------------- agent_service.py: book_from_plan
\* The checks before the booking agent is called; 0 when none fails.  The plan
\* of the session model has a flight and a hotel segment.
book_from_plan_error(row, force) ==
    IF ~RowExists(row) THEN 404
    ELSE IF ~HasPlan(row.final_plan) THEN 400
    ELSE IF ~force /\ row.status # "approved" THEN 400
    ELSE IF ~PlanGenerated(row.final_plan) THEN 500
    ELSE 0

Booking(via, force, row) ==
    [via |-> via, force |-> force, plan_id |-> row.final_plan.plan_id,
     approved_by |-> ApproversOf(row, row.final_plan), clock |-> now]

\* The values the segment query parameter is tested against, and one that is not
\* among them.
Segments == {"both", "flight", "hotel"}
SegmentArguments == Segments \cup {"invalid"}

\* ExpediaAgent.__init__ has no **kwargs: a keyword it does not declare raises
\* TypeError.
Accepts(parameters, arguments) == arguments \subseteq parameters

ExpediaAgent_parameters ==
    {"llm_model", "cloud_profile_id", "use_cloud_browser", "headless", "use_tools", "tool_type"}

\* The status the handler answers with; 200 stands for a booking flow that was
\* run.  The agent is constructed before the segment is tested, outside the
\* inner try: its TypeError is answered with 500.
book_from_plan(row, segment, force) ==
    IF book_from_plan_error(row, force) # 0 THEN book_from_plan_error(row, force)
    ELSE IF ~Accepts(ExpediaAgent_parameters, {"llm_model", "proxy_country_code"}) THEN 500
    ELSE IF segment \notin Segments THEN 400
    ELSE 200

BookFromPlan ==
    /\ user_ids # <<>>
    /\ \E segment \in SegmentArguments, force \in BOOLEAN :
          LET code == book_from_plan(db_session, segment, force) IN
          /\ response' = [Resp("book_from_plan", code) EXCEPT !.segment = segment,
                                                              !.force = force]
          /\ IF code = 200
             THEN /\ Len(bookings) < MaxBookings
                  /\ bookings' = Append(bookings, Booking("book_from_plan", force, db_session))
             ELSE UNCHANGED bookings
    /\ UNCHANGED <<aside, config, graph, active_states, active_orchestrators,
                   db_session, message_mappings, now>>

\* ------------------------------------------- main.py: trigger_parallel_bookings
\* Every participant is taken to have stored credentials.  On an error dict the
\* task text cannot be built (KeyError, caught per user): no booking call is made.
TriggerParallelBookings(row) ==
    IF ~RowExists(row) \/ ~HasPlan(row.final_plan)
    THEN db_session' = row /\ UNCHANGED bookings
    ELSE IF ~PlanGenerated(row.final_plan)
    THEN /\ db_session' = update_chat_session(row, <<>>, <<>>, <<"bookings_partial">>, <<>>)
         /\ UNCHANGED bookings
    ELSE /\ Len(bookings) < MaxBookings
         /\ bookings' = Append(bookings, Booking("approval", FALSE, row))
         /\ \E all_success \in BOOLEAN :
               db_session' = update_chat_session(row, <<>>, <<>>,
                                 <<IF all_success THEN "bookings_completed"
                                   ELSE "bookings_partial">>, <<>>)

\* -------------------------------------- main.py: start_new_volley_with_feedback
\* "row" is the session row as the caller left it.
start_new_volley_with_feedback(row, feedback, out, fails) ==
    IF ~RowExists(row)
    THEN /\ db_session' = row
         /\ UNCHANGED <<active_orchestrators, active_states, message_mappings, now>>
    ELSE /\ active_orchestrators' = TRUE
         /\ IF active_states = <<>>
            THEN /\ db_session' = row
                 /\ UNCHANGED <<active_states, message_mappings, now>>
            ELSE IF RunRaises(out, fails)
            THEN /\ active_states' =
                       <<handle_rejection_argument(active_states[1], feedback, SystemUser)>>
                 /\ db_session' = row
                 /\ UNCHANGED <<message_mappings, now>>
            ELSE LET final_state ==
                        run_volley(handle_rejection(active_states[1], feedback, SystemUser,
                                                    user_ids),
                                   user_ids, messages_per_volley, out, now + 1) IN
                 /\ active_states' = <<final_state>>
                 /\ now' = now + 1
                 /\ IF PlanGenerated(final_state.current_plan)
                    THEN /\ message_mappings' = message_mappings \cup
                                {Mapping(final_state.current_plan.plan_id, u) :
                                    u \in Range(user_ids)}
                         /\ db_session' = [row EXCEPT
                                              !.approval_state = EmptyMap,
                                              !.final_plan = final_state.current_plan,
                                              !.current_volley = @ + 1,
                                              !.status = "pending_approval"]
                    ELSE /\ db_session' = row
                         /\ UNCHANGED message_mappings

\* The function called directly, as the end-to-end test does.
StartNewVolleyWithFeedback ==
    /\ user_ids # <<>>
    /\ WithinRounds
    /\ \E feedback \in {NextFeedback}, out \in SynthOutputs, fails \in BOOLEAN :
          /\ start_new_volley_with_feedback(db_session, feedback, out, fails)
          /\ response' = Resp("new_volley", IF RunRaises(out, fails) THEN 500 ELSE 200)
    /\ UNCHANGED <<aside, config, graph, bookings>>

\* --------------------------------------------------- database.py, called directly
\* update_approval_state(db, session_id, user_id, approved, feedback) as the tests call it.
RecordDecision ==
    /\ user_ids # <<>>
    /\ \E user_id \in Range(user_ids), approved \in BOOLEAN, feedback \in {Null, NextFeedback} :
          /\ approved <=> feedback = Null
          /\ db_session' = update_approval_state(db_session, user_id, approved, feedback, now)
          /\ response' = RecordResp("record", db_session', user_ids)
    /\ UNCHANGED <<aside, config, graph, active_states, active_orchestrators,
                   message_mappings, bookings, now>>

\* ------------------------------------- main.py: approve link and reply webhook
NoMapping == [message_id |-> Null, user_id |-> NoUser]

\* A message id no plan email was sent with.
UnknownMessageId == <<0, 0>>

\* Mutant of get_session_by_message_id: an id that is not found resolves to a
\* stored mapping of the session.
get_session_by_message_id_any(mappings, row, message_id) ==
    IF mappings = {} \/ ~RowExists(row) THEN NoMapping
    ELSE IF \E m \in mappings : m.message_id = message_id
    THEN CHOOSE m \in mappings : m.message_id = message_id
    ELSE CHOOSE m \in mappings : TRUE

\* get_session_by_message_id: the mapping row of the message id when it and its
\* session exist, else None.
get_session_by_message_id(mappings, row, message_id) ==
    IF (\E m \in mappings : m.message_id = message_id) /\ RowExists(row)
    THEN CHOOSE m \in mappings : m.message_id = message_id
    ELSE NoMapping

\* The answer to an event whose message id does not resolve: the links answer
\* 404 with a "Link Expired" page, the webhook answers
\* {"status": "error", "reason": "session_not_found"}.
NotFound(via, message_id) ==
    [Resp(via, IF via = "webhook" THEN 200 ELSE 404) EXCEPT
        !.status = IF via = "webhook" THEN "error" ELSE "Link Expired",
        !.message_id = message_id]

\* The texts of the email replies, word by word.
Replies ==
    {<<"APPROVE">>, <<"Reject", "the", "budget", "is", "too", "high">>,
     <<"REJECT", "I", "do", "not", "approve">>, <<"thanks">>}

\* str.lower() on a word of a reply.
lower(word) ==
    CASE word = "APPROVE" -> "approve"
      [] word = "REJECT" -> "reject"
      [] word = "Reject" -> "reject"
      [] word = "I" -> "i"
      [] OTHER -> word

\* word in text.lower()
Says(text, word) == \E i \in 1..Len(text) : lower(text[i]) = word

\* get_message_content: the placeholder does not fetch the reply.
get_message_content(reply) == <<"APPROVE">>

\* The branch handle_agentmail_webhook takes on a fetched content.
reply_decision(reply_content) ==
    IF Says(reply_content, "approve") THEN "approved"
    ELSE IF Says(reply_content, "reject") THEN "rejected"
    ELSE "unclear_response"

\* approve_via_link, and handle_agentmail_webhook on a reply whose fetched
\* content says approve: handle_plan_approval for the mapped participant.
approve_via(via, message_id, reply) ==
    LET result == get_session_by_message_id(message_mappings, db_session, message_id)
        row == update_approval_state(db_session, result.user_id, TRUE, Null, now) IN
    IF result = NoMapping
    THEN /\ response' = NotFound(via, message_id)
         /\ UNCHANGED <<db_session, bookings>>
    ELSE /\ response' = [RecordResp(via, row, user_ids) EXCEPT
                            !.status = "approved", !.message_id = message_id,
                            !.reply = reply]
         /\ IF all_approved(row.approval_state, user_ids)
            THEN TriggerParallelBookings(row)
            ELSE db_session' = row /\ UNCHANGED bookings

\* reject_via_link: without feedback the form is shown, with feedback
\* handle_plan_rejection runs for the mapped participant.
reject_via_link(message_id, feedback, out, fails) ==
    LET result == get_session_by_message_id(message_mappings, db_session, message_id)
        row == update_approval_state(db_session, result.user_id, FALSE, feedback, now) IN
    IF result = NoMapping
    THEN /\ response' = NotFound("reject_link", message_id)
         /\ UNCHANGED <<db_session, active_orchestrators, active_states, message_mappings, now>>
    ELSE IF ~Truthy(feedback)
    THEN /\ response' = [Resp("reject_link", 200) EXCEPT
                            !.status = "form", !.message_id = message_id]
         /\ UNCHANGED <<db_session, active_orchestrators, active_states, message_mappings, now>>
    ELSE /\ response' = [RecordResp("reject_link", row, user_ids) EXCEPT
                            !.status = "rejected", !.message_id = message_id]
         /\ IF any_rejected(row.approval_state, user_ids)
            THEN start_new_volley_with_feedback(row, feedback, out, fails)
            ELSE /\ db_session' = row
                 /\ UNCHANGED <<active_orchestrators, active_states, message_mappings, now>>

\* The events of the plan emails that were sent.
ApproveViaToken ==
    /\ \E via \in {"approve_link", "webhook"}, m \in message_mappings :
          LET reply == IF via = "webhook" THEN <<"APPROVE">> ELSE NoReply IN
          /\ via = "webhook" => reply_decision(get_message_content(reply)) = "approved"
          /\ approve_via(via, m.message_id, reply)
    /\ UNCHANGED <<aside, config, graph, active_states, active_orchestrators,
                   message_mappings, now>>

RejectViaLink ==
    /\ WithinRounds
    /\ \E m \in message_mappings, feedback \in {NextFeedback}, out \in SynthOutputs,
          fails \in BOOLEAN :
          reject_via_link(m.message_id, feedback, out, fails)
    /\ UNCHANGED <<aside, config, graph, bookings>>

\* The server process ends and a new one starts: the module-level dicts
\* active_orchestrators and active_states are empty again, the database is kept.
Restart ==
    /\ active_orchestrators \/ active_states # <<>>
    /\ active_orchestrators' = FALSE
    /\ active_states' = <<>>
    /\ response' = Resp("restart", 0)
    /\ UNCHANGED <<aside, config, graph, db_session, message_mappings, bookings, now>>

NextServer ==
    \/ Restart
    \/ StartGroupChat
    \/ RejectPlan
    \/ ApprovePlan
    \/ BookFromPlan
    \/ StartNewVolleyWithFeedback
    \/ RecordDecision
    \/ ApproveViaToken
    \/ RejectViaLink

SpecServer == Init /\ [][NextServer]_vars

\* ------------------------------------------------ two rounds of revision
\* A session whose plan is revised twice: once through the email path
\* (start_new_volley_with_feedback) and once through the reject endpoint, with
\* decisions recorded in between.
NextRevisions ==
    \/ StartGroupChat
    \/ StartNewVolleyWithFeedback
    \/ RecordDecision
    \/ RejectRevisedPlan
    \/ ApproveViaToken

SpecRevisions == Init /\ [][NextRevisions]_vars

\* ================================================ the inbound events alone
\* The session is started and revised; approvals and rejections arrive by link
\* and by webhook with any message id, one that was never issued included.
MessageIds == {m.message_id : m \in message_mappings} \cup {UnknownMessageId}

InboundApprove ==
    /\ \E via \in {"approve_link", "webhook"}, message_id \in MessageIds :
          \E reply \in IF via = "webhook" THEN Replies ELSE {NoReply} :
             /\ via = "webhook" => reply_decision(get_message_content(reply)) = "approved"
             /\ approve_via(via, message_id, reply)
    /\ UNCHANGED <<aside, config, graph, active_states, active_orchestrators,
                   message_mappings, now>>

InboundReject ==
    /\ active_states # <<>> => RejectionsApplied(active_states[1]) <= MaxRevisions
    /\ \E message_id \in MessageIds, feedback \in {"", NextFeedback}, out \in SynthOutputs,
          fails \in BOOLEAN :
          reject_via_link(message_id, feedback, out, fails)
    /\ UNCHANGED <<aside, config, graph, bookings>>

\* handle_agentmail_webhook on an event that is not message.received or has no
\* in_reply_to: {"status": "ignored", ...}.
WebhookNotAReply ==
    /\ response' = [Resp("webhook", 200) EXCEPT !.status = "ignored"]
    /\ UNCHANGED <<aside, config, graph, server, now>>

NextInbound ==
    \/ StartGroupChat
    \/ StartNewVolleyWithFeedback
    \/ InboundApprove
    \/ InboundReject
    \/ WebhookNotAReply

SpecInbound == Init /\ [][NextInbound]_vars

\* ================================================= the approval tracker alone
\* update_approval_state called on the row of a created session, with every
\* argument it accepts: registered and unregistered ids, approvals, rejections
\* with a text, with "" and with None.
FeedbackArguments == {Null, "", "f1"}

Decision(user_id, approved, feedback) ==
    [user_id |-> user_id, approved |-> approved, feedback |-> feedback]

InitApproval ==
    /\ \E n \in 1..MaxUsers : user_ids = Registration(n)
    /\ messages_per_volley = 1
    /\ messages_channel = "LastValue"
    /\ recursion_limit = DEFAULT_RECURSION_LIMIT
    /\ db_session = create_session(1)
    /\ pc = "idle"
    /\ node = MasterPlanner
    /\ state = InitialState(<<>>, 0)
    /\ active_states = <<>>
    /\ active_orchestrators = FALSE
    /\ message_mappings = {}
    /\ now = 0
    /\ bookings = <<>>
    /\ response = Resp("none", 0)
    /\ route_log = <<>>
    /\ turn_log = <<>>
    /\ llm_calls = <<>>
    /\ plan_dict = GoodDoc
    /\ validation = NotValidated
    /\ decisions = <<>>
    /\ record_calls = EmptyMap
    /\ users = EmptyMap
    /\ budget_per_person = FALSE
    /\ dispatch_pc = "none"
    /\ tasks = <<>>
    /\ run_task_calls = {}

UpdateApprovalState ==
    /\ Len(decisions) < MaxDecisions
    /\ \E user_id \in 1..(Len(user_ids) + 1), approved \in BOOLEAN,
          feedback \in FeedbackArguments :
          /\ db_session' = update_approval_state(db_session, user_id, approved, feedback, now)
          /\ decisions' = Append(decisions, Decision(user_id, approved, feedback))
          /\ response' = RecordResp("record", db_session', user_ids)
    /\ UNCHANGED <<concurrent, validated, booking, config, graph, active_states, active_orchestrators,
                   message_mappings, bookings, now>>

NextApproval == UpdateApprovalState

SpecApproval == InitApproval /\ [][NextApproval]_vars

\* ============================================ main.py: the booking dispatch
\* trigger_parallel_bookings step by step: one book_for_user coroutine per
\* loaded profile, each running up to its first await (run_task) and then to
\* its return, in any interleaving; gather returns when all have returned.
Profile(e, p, c) == [expedia_credentials |-> e, payment_details |-> p, contact_info |-> c]

Profiles ==
    {Profile(TRUE, TRUE, TRUE), Profile(FALSE, TRUE, TRUE), Profile(TRUE, FALSE, TRUE),
     Profile(TRUE, TRUE, FALSE), Profile(FALSE, FALSE, FALSE)}

\* load_user_profiles: the rows found, in the order of the ids; an id without
\* a row is skipped.
load_user_profiles(table, uids) == SelectSeq(uids, LAMBDA u : u \in DOMAIN table)

CredentialErrors ==
    {"No Expedia credentials provided", "No payment details provided",
     "No contact info provided"}

\* Mutant of credential_error: payment details are not checked.
credential_error_skips_payment(profile) ==
    IF ~profile.expedia_credentials THEN "No Expedia credentials provided"
    ELSE IF ~profile.contact_info THEN "No contact info provided"
    ELSE Null

\* The checks book_for_user makes before its try block: the error of the first
\* one that fails, or Null.
credential_error(profile) ==
    IF ~profile.expedia_credentials THEN "No Expedia credentials provided"
    ELSE IF ~profile.payment_details THEN "No payment details provided"
    ELSE IF ~profile.contact_info THEN "No contact info provided"
    ELSE Null

NoResult == [success |-> FALSE, error |-> "pending"]

\* The dict book_for_user returns.
BookingResult(success, error) == [success |-> success, error |-> error]

Task(user_id) == [user_id |-> user_id, at |-> "created", result |-> NoResult]

\* all(r.get("success", False) for r in results if isinstance(r, dict))
all_success(results) == \A i \in 1..Len(results) : results[i].result.success

\* A session whose plan awaits booking, every registered id having a user row.
InitBooking ==
    /\ \E n \in 1..MaxUsers : user_ids = Registration(n)
    /\ users \in [Range(user_ids) -> Profiles]
    /\ budget_per_person \in BOOLEAN
    /\ \E plan \in {NoPlan, DraftPlan(1)} :
          db_session = [create_session(1) EXCEPT !.final_plan = plan,
                                                 !.status = "pending_approval"]
    /\ messages_per_volley = 1
    /\ messages_channel = "LastValue"
    /\ recursion_limit = DEFAULT_RECURSION_LIMIT
    /\ pc = "idle"
    /\ node = MasterPlanner
    /\ state = InitialState(<<>>, 0)
    /\ active_states = <<>>
    /\ active_orchestrators = FALSE
    /\ message_mappings = {}
    /\ now = 1
    /\ bookings = <<>>
    /\ response = Resp("none", 0)
    /\ route_log = <<>>
    /\ turn_log = <<>>
    /\ llm_calls = <<>>
    /\ plan_dict = GoodDoc
    /\ validation = NotValidated
    /\ decisions = <<>>
    /\ record_calls = EmptyMap
    /\ dispatch_pc = "none"
    /\ tasks = <<>>
    /\ run_task_calls = {}

\* database.delete_user: the row of a user is deleted; sessions keep the id.
DeleteUser ==
    /\ dispatch_pc = "none"
    /\ \E u \in DOMAIN users : users' = [x \in (DOMAIN users) \ {u} |-> users[x]]
    /\ UNCHANGED <<concurrent, validated, approvals, budget_per_person, dispatch_pc, tasks, run_task_calls,
                   config, graph, server, now, response>>

\* trigger_parallel_bookings up to the gather call.
TriggerDispatch ==
    /\ dispatch_pc = "none"
    /\ IF ~RowExists(db_session) \/ db_session.final_plan = NoPlan
       THEN /\ dispatch_pc' = "returned"
            /\ UNCHANGED tasks
       ELSE /\ dispatch_pc' = "gather"
            /\ tasks' = [i \in 1..Len(load_user_profiles(users, user_ids)) |->
                            Task(load_user_profiles(users, user_ids)[i])]
    /\ UNCHANGED <<concurrent, validated, approvals, users, budget_per_person, run_task_calls,
                   config, graph, server, now, response>>

\* A coroutine runs from its start to its first await or to an early return:
\* the credential checks, then inside try the inbox, the agent and the two task
\* texts (the hotel text reads plan["budget"]["per_person"]), then run_task is
\* called.  An exception inside try becomes a success:false result.
BookForUserStart ==
    /\ dispatch_pc = "gather"
    /\ \E i \in 1..Len(tasks), setup_raises \in BOOLEAN :
          LET u == tasks[i].user_id
              error == credential_error(users[u]) IN
          /\ tasks[i].at = "created"
          /\ IF error # Null
             THEN /\ tasks' = [tasks EXCEPT ![i].at = "returned",
                                            ![i].result = BookingResult(FALSE, error)]
                  /\ UNCHANGED run_task_calls
             ELSE IF ~budget_per_person
             THEN /\ tasks' = [tasks EXCEPT ![i].at = "returned",
                                            ![i].result = BookingResult(FALSE, "'per_person'")]
                  /\ UNCHANGED run_task_calls
             ELSE IF setup_raises
             THEN /\ tasks' = [tasks EXCEPT ![i].at = "returned",
                                            ![i].result = BookingResult(FALSE, "exception")]
                  /\ UNCHANGED run_task_calls
             ELSE /\ tasks' = [tasks EXCEPT ![i].at = "run_task"]
                  /\ run_task_calls' = run_task_calls \cup {u}
    /\ UNCHANGED <<concurrent, validated, approvals, users, budget_per_person, dispatch_pc,
                   config, graph, server, now, response>>

\* run_task (and cleanup) returns, or raises into the except clause.
BookForUserEnd ==
    /\ dispatch_pc = "gather"
    /\ \E i \in 1..Len(tasks), raises \in BOOLEAN :
          /\ tasks[i].at = "run_task"
          /\ tasks' = [tasks EXCEPT
                          ![i].at = "returned",
                          ![i].result = IF raises THEN BookingResult(FALSE, "exception")
                                        ELSE BookingResult(TRUE, Null)]
    /\ UNCHANGED <<concurrent, validated, approvals, users, budget_per_person, dispatch_pc, run_task_calls,
                   config, graph, server, now, response>>

\* gather has every result: the status of the session is written.
Aggregate ==
    /\ dispatch_pc = "gather"
    /\ \A i \in 1..Len(tasks) : tasks[i].at = "returned"
    /\ dispatch_pc' = "aggregated"
    /\ db_session' = update_chat_session(db_session, <<>>, <<>>,
                          <<IF all_success(tasks) THEN "bookings_completed"
                            ELSE "bookings_partial">>, <<>>)
    /\ UNCHANGED <<concurrent, validated, approvals, users, budget_per_person, tasks, run_task_calls,
                   config, graph, active_states, active_orchestrators, message_mappings,
                   bookings, now, response>>

NextBooking ==
    \/ DeleteUser
    \/ TriggerDispatch
    \/ BookForUserStart
    \/ BookForUserEnd
    \/ Aggregate

SpecBooking == InitBooking /\ [][NextBooking]_vars

\* ===================================================================== claims
\* The registration order repeated k times.
Repeated(uids, k) == [i \in 1..(Len(uids) * k) |-> uids[((i - 1) % Len(uids)) + 1]]

\* The graph is running a round and synthesis has not run yet.
InRound == pc \in {"route", "agent", "planner"}

\* C1: round-robin fairness.  When a round has completed (all turns taken and
\* synthesis reached), every participant has spoken exactly K times and the
\* speakers of the round are the registration order repeated K times.
C1_RoundRobinFairness ==
    pc \in {"planner", "finish"} =>
        /\ turn_log = Repeated(user_ids, messages_per_volley)
        /\ \A u \in Range(user_ids) : state.agent_message_counts[u] = messages_per_volley

C1_Witness ==
    /\ pc = "finish"
    /\ Len(user_ids) = 3
    /\ messages_per_volley = 2
    /\ state.current_volley = 1
    /\ turn_log = <<1, 2, 3, 1, 2, 3>>

\* C2: within a round the scheduler selects a speaker on each of the first N*K
\* decisions and Synthesize on decision N*K+1, never earlier; nothing is
\* scheduled after synthesis, so a finished round has exactly N*K turns.
C2_SynthesizeAfterExactlyNK ==
    LET nk == Len(user_ids) * messages_per_volley IN
    /\ Len(route_log) <= nk + 1
    /\ \A i \in 1..Len(route_log) : (route_log[i] = MasterPlanner) <=> (i = nk + 1)
    /\ pc \in {"planner", "finish"} => Len(route_log) = nk + 1
    /\ pc = "finish" => Len(turn_log) = nk /\ state.total_turns = nk

C2_Witness ==
    /\ pc = "finish"
    /\ user_ids = <<1>>
    /\ messages_per_volley = 1
    /\ route_log = <<1, MasterPlanner>>
    /\ turn_log = <<1>>

\* C7: rejection reset.  handle_rejection on the held state gives a state whose
\* round number is one greater, whose per-participant counts, total turns and
\* cursor are 0, which is not complete, whose feedback is the feedback given,
\* and whose transcript is the old one plus the system notice as last message.
C7_RejectionResets ==
    [][(pc = "idle" /\ pc' = "route" /\ active_states # <<>>) =>
        LET before == active_states[1]
            after == state'
            last == after.messages[Len(after.messages)] IN
        /\ after.current_volley = before.current_volley + 1
        /\ \A u \in Range(user_ids) : after.agent_message_counts[u] = 0
        /\ after.total_turns = 0
        /\ after.current_agent_index = 0
        /\ ~after.is_complete
        /\ Len(after.messages) = Len(before.messages) + 1
        /\ SubSeq(after.messages, 1, Len(before.messages)) = before.messages
        /\ last.type = "system"
        /\ after.rejection_feedback \in Feedbacks
        /\ last.content = <<user_ids[1], after.rejection_feedback>>]_vars

C7_Witness ==
    /\ pc = "route"
    /\ route_log = <<>>
    /\ state.current_volley = 2
    /\ state.rejection_feedback = "f2"
    /\ state.total_turns = 0
    /\ Len(state.messages) = Len(user_ids) * messages_per_volley * 2 + 2
    /\ Len(user_ids) * messages_per_volley > 0

\* C11: every rejection with feedback recorded through the tracked link leads
\* to a new round seeded with it, also when the process-local session state is
\* gone: after such a rejection has been recorded (any_rejected answered true)
\* the server holds a negotiation state for the session.
C11_RejectionStartsRound ==
    (response.op = "reject_link" /\ response.any_rejected /\ RowExists(db_session)) =>
        active_states # <<>>

\* The speakers graph.invoke schedules when it is entered with state s.
RECURSIVE RemainingSpeakers(_, _, _)
RemainingSpeakers(s, uids, k) ==
    IF route_supervisor(s, uids, k) = MasterPlanner THEN <<>>
    ELSE <<route_supervisor(s, uids, k)>> \o
         RemainingSpeakers(agent_node(s, route_supervisor(s, uids, k)), uids, k)

C13_TranscriptAppendOnly ==
    pc \in {"planner", "finish"} =>
        Len(state.messages) =
            Len(user_ids) * messages_per_volley * (state.current_volley + 1)
            + state.current_volley

\* C14: after a decision is recorded, any_rejected is returned true exactly
\* when some registered participant has an entry recorded in the current round
\* (since the latest synthesis) with approved false and feedback given.
C14_AnyRejectedIffRejectionThisRound ==
    response.op = "record" =>
        (response.any_rejected <=>
            \E u \in Range(user_ids) :
                /\ u \in DOMAIN db_session.approval_state
                /\ ~db_session.approval_state[u].approved
                /\ db_session.approval_state[u].feedback # Null
                /\ db_session.approval_state[u].timestamp = now)

\* The row after the calls of "log" are made on the created session, in order.
RECURSIVE Replay(_)
Replay(log) ==
    IF log = <<>> THEN create_session(1)
    ELSE LET d == log[Len(log)] IN
         update_approval_state(Replay(SubSeq(log, 1, Len(log) - 1)),
                               d.user_id, d.approved, d.feedback, 0)

\* The log without its entry i.
RemoveAt(log, i) == SubSeq(log, 1, i - 1) \o SubSeq(log, i + 1, Len(log))

C16_UnregisteredNotCounted ==
    LET n == Len(decisions) IN
    /\ response.all_approved =>
           \A u \in Range(user_ids) :
               u \in DOMAIN db_session.approval_state /\ db_session.approval_state[u].approved
    /\ (n >= 1 /\ decisions[n].user_id \notin Range(user_ids)) =>
           LET before == Replay(SubSeq(decisions, 1, n - 1)) IN
           /\ response.all_approved = all_approved(before.approval_state, user_ids)
           /\ response.any_rejected = any_rejected(before.approval_state, user_ids)

\* One of two participants has approved, then an unregistered id approves and
\* another one rejects with feedback: neither flag is set.
C16_Witness ==
    /\ user_ids = <<1, 2>>
    /\ decisions = <<Decision(1, TRUE, Null), Decision(3, TRUE, Null), Decision(3, FALSE, "f1")>>
    /\ 3 \in DOMAIN db_session.approval_state
    /\ ~response.all_approved
    /\ ~response.any_rejected

\* The indices of the gathered results that are of participant u.
ResultsOf(u) == {i \in 1..Len(tasks) : tasks[i].user_id = u}

\* C17: booking fan-out.  When the dispatch has gathered its results there are
\* exactly N of them, one per registered participant in registration order.
C17_OneResultPerParticipant ==
    dispatch_pc = "aggregated" =>
        /\ Len(tasks) = Len(user_ids)
        /\ \A i \in 1..Len(tasks) : tasks[i].user_id = user_ids[i]

\* C18: a participant whose profile lacks the booking-site credentials, the
\* payment details or the contact info gets, once their coroutine has
\* returned, a success:false result with a missing-credentials error, and
\* run_task is never called for them; every other gathered coroutine still
\* runs to a result of its own, which is never a missing-credentials error.
C18_MissingCredentialsIsolated ==
    \A i \in 1..Len(tasks) :
        LET u == tasks[i].user_id
            profile == users[u]
            complete == profile.expedia_credentials /\ profile.payment_details
                        /\ profile.contact_info IN
        /\ ~complete => u \notin run_task_calls
        /\ (~complete /\ tasks[i].at = "returned") =>
               /\ ~tasks[i].result.success
               /\ tasks[i].result.error \in CredentialErrors
        /\ (complete /\ tasks[i].at = "returned") =>
               tasks[i].result.error \notin CredentialErrors
        /\ dispatch_pc = "aggregated" => tasks[i].at = "returned"

\* Participant 1 has no payment details and participant 2 no contact info;
\* participant 3's booking ran and succeeded.
C18_Witness ==
    /\ dispatch_pc = "aggregated"
    /\ Len(tasks) = 3
    /\ tasks[1].result = BookingResult(FALSE, "No payment details provided")
    /\ tasks[2].result = BookingResult(FALSE, "No contact info provided")
    /\ tasks[3].result = BookingResult(TRUE, Null)
    /\ run_task_calls = {3}
    /\ db_session.status = "bookings_partial"

\* C19: after the dispatch the status is bookings_completed exactly when every
\* registered participant has a result with success true, and bookings_partial
\* exactly when at least one but not all of them have.
C19_StatusReducesResults ==
    LET booked == {u \in Range(user_ids) :
                      \E i \in ResultsOf(u) : tasks[i].result.success} IN
    dispatch_pc = "aggregated" =>
        /\ db_session.status = "bookings_completed" <=> booked = Range(user_ids)
        /\ db_session.status = "bookings_partial" <=>
               (booked # {} /\ booked # Range(user_ids))

\* The message ids plan emails were sent with.
Issued == {m.message_id : m \in message_mappings}

\* C20 as stated: an approval or rejection event whose message id does not
\* resolve is answered with the outcome "ignored".
C20_UnresolvedIsIgnored ==
    (response.message_id # Null /\ response.message_id \notin Issued) =>
        response.status = "ignored"

\* C20: an approval or rejection event whose message id does not resolve to a
\* session and participant is answered with an explicit not-found outcome (the
\* links: 404 and a "Link Expired" page; the webhook: status "error"), and it
\* changes no approval state, starts no round and triggers no booking: the
\* session row, the negotiation state, the mappings, the clock of syntheses
\* and the booking runs are as before.
C20_UnresolvedChangesNothing ==
    [][(response'.message_id # Null /\ response'.message_id \notin Issued) =>
        /\ response'.op \in {"approve_link", "reject_link"} =>
               response'.code = 404 /\ response'.status = "Link Expired"
        /\ response'.op = "webhook" => response'.status = "error"
        /\ ~response'.all_approved /\ ~response'.any_rejected
        /\ UNCHANGED <<db_session, active_states, active_orchestrators, message_mappings,
                       bookings, now>>]_vars

\* A reply to an unknown message arrives while a plan awaits approval with
\* one approval on record.
C20_Witness ==
    /\ response = NotFound("webhook", UnknownMessageId)
    /\ db_session.status = "pending_approval"
    /\ message_mappings # {}
    /\ \E u \in DOMAIN db_session.approval_state : db_session.approval_state[u].approved
    /\ bookings = <<>>

Leaves == UNION {{<<g, Subfields(g)[i]>> : i \in 1..Len(Subfields(g))} : g \in Groups}

\* The value of a leaf of a document; a leaf of a group that is no object is absent.
LeafValue(plan, leaf) ==
    IF plan[leaf[1]].kind = "object" THEN plan[leaf[1]].sub[leaf[2]] ELSE "absent"

Validated == validation # NotValidated

PlanErrorRound ==
    /\ now' = now + 1
    /\ active_states' # <<>>
    /\ active_states'[1].current_plan.kind \in {"validation_error", "parse_error"}

\* C3: validation gate.  A round whose synthesis gave a PlanError (missing
\* fields or unparseable output) is not distributed: the handler that ran it
\* stores no tracking token, and does not set the session to pending_approval
\* (a session still pending keeps the plan it was pending for).
C3_ValidationGate ==
    [][PlanErrorRound =>
        /\ message_mappings' = message_mappings
        /\ db_session'.status = "pending_approval" =>
              /\ db_session.status = "pending_approval"
              /\ db_session'.final_plan = db_session.final_plan]_vars

C3_Witness ==
    /\ active_states # <<>>
    /\ active_states[1].current_plan = ValidationErrorPlan(<<<<"hotel", "location">>>>)
    /\ active_states[1].current_volley = 1
    /\ response = Resp("new_volley", 200)
    /\ db_session.status = "active"
    /\ message_mappings = {}

\* ------------------------------------------------------------ C4
\* C4: every run of the booking pipeline that was not forced happened while
\* each registered participant had an approved:true decision for the plan booked.
C4_BookingOnlyWhenAllApproved ==
    \A i \in 1..Len(bookings) :
        ~bookings[i].force => Range(user_ids) \subseteq bookings[i].approved_by

\* ------------------------------------------------------------ C5
\* C5: after a decision is recorded, all_approved is returned true exactly when
\* every registered participant has an approved:true entry recorded in the
\* current round (since the latest synthesis).
C5_AllApprovedIffEveryoneThisRound ==
    response.op = "record" =>
        (response.all_approved <=>
            \A u \in Range(user_ids) :
                /\ u \in DOMAIN db_session.approval_state
                /\ db_session.approval_state[u].approved
                /\ db_session.approval_state[u].timestamp = now)

\* ------------------------------------------------------------ C6
\* C6: the approval state holds no decision of an earlier round: once a new
\* round's synthesis has run, every stored entry was recorded after it.
C6_ApprovalStateEmptyAtNewRound ==
    \A u \in DOMAIN db_session.approval_state :
        db_session.approval_state[u].timestamp = now

\* ------------------------------------------------------------ C21
\* The calls of the current run_volley call that agent nodes made.
AgentCalls == {i \in 1..Len(llm_calls) : llm_calls[i].prompt.role # "planner"}

\* C21: rejection feedback is broadcast.  In every round that follows a
\* rejection, the prompt of every agent call, of whichever participant, holds
\* the feedback of that rejection.
C21_FeedbackBroadcast ==
    state.current_volley >= 1 =>
        \A i \in AgentCalls :
            /\ llm_calls[i].prompt.rejection_feedback = state.rejection_feedback
            /\ llm_calls[i].prompt.rejection_feedback \in Feedbacks

\* Participant 1 rejected; all three participants have spoken twice in the
\* revision round and each of the six prompts held the feedback.
C21_Witness ==
    /\ pc = "finish"
    /\ state.current_volley = 1
    /\ user_ids = <<1, 2, 3>>
    /\ Cardinality(AgentCalls) = 6
    /\ \A i \in AgentCalls : llm_calls[i].prompt.rejection_feedback = "f1"
    /\ llm_calls[3].prompt.node = 3

\* ------------------------------------------------------------ C22
\* C22: the initiator role is used for exactly one turn of a negotiation, the
\* first turn of the first participant in round 0; every other agent call,
\* the first of a revision round included, has the negotiator role, whose
\* prompt shows the current plan and the history.
C22_InitiatorOnlyInRoundZero ==
    \A i \in AgentCalls :
        IF state.current_volley = 0 /\ i = 1
        THEN /\ llm_calls[i].prompt.role = "initiator"
             /\ llm_calls[i].prompt.node = user_ids[1]
        ELSE /\ llm_calls[i].prompt.role = "negotiator"
             /\ llm_calls[i].prompt.shows = {"current_plan", "history"}

\* ------------------------------------------------------------ C23
\* C23: one gateway call per agent turn and one synthesis call per round.  The
\* agent calls that returned are as many as the turns taken; a synthesis call
\* is the last call of the run and is made only after the scheduler chose the
\* master planner; a round that has completed made exactly N*K + 1 calls, the
\* first N*K by the speakers in turn order.
C23_OneCallPerTurnAndRound ==
    LET nk == Len(user_ids) * messages_per_volley
        planner_calls == {i \in 1..Len(llm_calls) : llm_calls[i].prompt.role = "planner"} IN
    /\ InRound =>
           Cardinality({i \in AgentCalls : llm_calls[i].ok}) = state.total_turns
    /\ \A i \in planner_calls :
           /\ i = Len(llm_calls)
           /\ route_log # <<>> /\ route_log[Len(route_log)] = MasterPlanner
           /\ state.total_turns = nk
    /\ pc = "finish" =>
           /\ Len(llm_calls) = nk + 1
           /\ planner_calls = {nk + 1}
           /\ \A i \in 1..nk : llm_calls[i].ok /\ llm_calls[i].prompt.node = turn_log[i]

\* Three participants, two turns each: seven calls.
C23_Witness ==
    /\ pc = "finish"
    /\ Len(user_ids) = 3
    /\ messages_per_volley = 2
    /\ Len(llm_calls) = 7
    /\ llm_calls[7].prompt.role = "planner"

\* ------------------------------------------------------------ C24
\* C24: a gateway failure is fatal for the round.  A call that failed is the
\* last call of its run_volley invocation: the invocation has ended with the
\* error surfaced to the caller, the state of the round is where the failed
\* node found it, and no turn or synthesis was executed after the failure.
C24_GatewayFailureAborts ==
    \A i \in 1..Len(llm_calls) :
        ~llm_calls[i].ok =>
            /\ i = Len(llm_calls)
            /\ pc = "crashed"
            /\ response = Resp("example", 500)
            /\ ~state.is_complete
            /\ Len(turn_log) = state.total_turns
            /\ Cardinality({j \in AgentCalls : llm_calls[j].ok}) = state.total_turns

\* The second participant's call of a revision round failed after one turn.
C24_Witness ==
    /\ pc = "crashed"
    /\ state.current_volley = 1
    /\ Len(llm_calls) = 2
    /\ llm_calls[1].ok
    /\ ~llm_calls[2].ok
    /\ llm_calls[2].prompt.node = 2
    /\ state.total_turns = 1

\* ------------------------------------------------------------ C25
\* Rejection notices in a transcript.
Notices(messages) == {i \in 1..Len(messages) : messages[i].type = "system"}

\* C25: handle_rejection is a pure state transform.  The state handed to it is
\* the state a finished round returned, which carries at most one rejection
\* notice per rejection that led to it; if the call leaves its argument alone,
\* the state the caller still holds never carries more notices than that.
C25_ArgumentUnchanged ==
    active_states # <<>> =>
        Cardinality(Notices(active_states[1].messages)) <= active_states[1].current_volley

\* ------------------------------------------------------------ C26
\* C26: when the first round of a started session yields a validated plan, the
\* start operation answers successfully, the plan is the session's persisted
\* final plan, every participant has a stored tracking token and the session
\* is pending approval.
C26_ValidatedPlanIsDistributed ==
    (/\ response.op = "start"
     /\ active_states # <<>>
     /\ PlanGenerated(active_states[1].current_plan)) =>
        /\ response.code = 200
        /\ db_session.final_plan = active_states[1].current_plan
        /\ db_session.status = "pending_approval"
        /\ \A u \in Range(user_ids) : \E m \in message_mappings : m.user_id = u

\* ------------------------------------------------------------ C27
\* C27: run_volley always ends in a completed round.  Once a round started
\* from a fresh state has ended, in whatever way, all N*K turns have been
\* taken and the synthesis node has been entered.
C27_RoundRunsToCompletion ==
    (pc \in {"finish", "crashed"} \/ active_states # <<>>) =>
        /\ state.total_turns = Len(user_ids) * messages_per_volley
        /\ route_log # <<>>
        /\ route_log[Len(route_log)] = MasterPlanner
        /\ Supersteps < recursion_limit

\* ------------------------------------------------------------ C28
\* sum(agent_message_counts.values()), the users taken in registration order.
RECURSIVE SumCounts(_, _)
SumCounts(counts, uids) ==
    IF uids = <<>> THEN 0 ELSE counts[Head(uids)] + SumCounts(counts, Tail(uids))

TurnsAddUp(s) == s.total_turns = SumCounts(s.agent_message_counts, user_ids)

\* C28: in every state of the negotiation, the one the graph is running and the
\* one the caller holds, total_turns equals the sum of the per-participant
\* turn counts: after agent turns, after synthesis and after a rejection.
C28_TotalTurnsIsSumOfCounts ==
    /\ TurnsAddUp(state)
    /\ \A i \in 1..Len(active_states) : TurnsAddUp(active_states[i])

\* A revision round has taken some of its turns, unevenly, while the caller
\* holds the completed state of the round before.
C28_Witness ==
    /\ state.current_volley = 1
    /\ state.total_turns = 3
    /\ Len(user_ids) = 2
    /\ active_states # <<>>
    /\ active_states[1].is_complete
    /\ active_states[1].total_turns = 4

\* ------------------------------------------------------------ C29
\* A handler has just run a round to its end and the round left a validated
\* plan: the start handler, or a rejection handler that answered normally.
RoundJustPersisted ==
    /\ active_states # <<>>
    /\ PlanGenerated(active_states[1].current_plan)
    /\ \/ response.op = "start" /\ active_states[1].current_volley = 0
       \/ /\ response.op \in {"reject_plan", "new_volley"}
          /\ response.code = 200
          /\ active_states[1].current_volley >= 1

\* C29: after a start and r rejection-driven rounds, the row's round counter
\* is r + 1 and the row's final plan is the plan of the latest round.
C29_PersistedRoundCounter ==
    RoundJustPersisted =>
        /\ db_session.current_volley = active_states[1].current_volley + 1
        /\ db_session.final_plan = active_states[1].current_plan

\* ------------------------------------------------------------ C30
\* C30: the plan-booking endpoint answers 404 for a missing session, 400 for a
\* session without a plan, 400 for a plan that is not approved unless force is
\* set, 400 for a segment other than both, flight and hotel, and runs the
\* booking agent, answering 200, in every other case; no booking call is made
\* when it answers with an error.
C30_BookFromPlanErrors ==
    response.op = "book_from_plan" =>
        /\ response.code =
              IF ~RowExists(db_session) THEN 404
              ELSE IF ~HasPlan(db_session.final_plan) THEN 400
              ELSE IF ~response.force /\ db_session.status # "approved" THEN 400
              ELSE IF response.segment \notin Segments THEN 400
              ELSE 200
        /\ response.code # 200 =>
              \A i \in 1..Len(bookings) : bookings[i].via # "book_from_plan"

\* ------------------------------------------------------------ C31
\* C31: with messages_per_volley = 0 the router chooses the master planner at
\* once, no agent turn is taken, and the round ends in an error plan: a plan
\* synthesized from an empty transcript is never accepted.
C31_EmptyRoundIsRejected ==
    (/\ messages_per_volley = 0
     /\ user_ids # <<>>
     /\ pc = "finish"
     /\ state.messages = <<>>) =>
        /\ route_log = <<MasterPlanner>>
        /\ turn_log = <<>>
        /\ ~PlanGenerated(state.current_plan)

\* ------------------------------------------------------------ C32
\* C32: the prompt of every agent turn carries the whole transcript the state
\* holds when the turn is taken, whatever its length and whichever turn of
\* whichever round it is.
C32_PromptCarriesTranscript ==
    pc = "agent" => prompt_history(state) = state.messages

\* ------------------------------------------------------------ C33
\* C33: an email reply is recorded as an approval only when its text says
\* approve; a reply whose text is a rejection is answered as a rejection and
\* recorded with approved false and the text as feedback.
C33_ReplyDecidesTheRecord ==
    (response.op = "webhook" /\ response.reply # NoReply) =>
        LET reply == response.reply
            user == CHOOSE u \in Range(user_ids) :
                        \E m \in message_mappings :
                            m.message_id = response.message_id /\ m.user_id = u IN
        /\ response.status = "approved" => reply_decision(reply) = "approved"
        /\ reply_decision(reply) = "rejected" =>
              /\ response.status = "rejected"
              /\ ~db_session.approval_state[user].approved

\* ------------------------------------------------------------ C34
\* C34: the booking pipeline is dispatched at most once for a plan: no two
\* runs of it are for the same plan.
C34_OneDispatchPerPlan ==
    \A i, j \in 1..Len(bookings) :
        i # j => bookings[i].plan_id # bookings[j].plan_id

\* ------------------------------------------------------------ C35
\* C35: a plan that was rejected and followed by a new round is never booked.
\* Every round is started by a rejection of the plan before it and every
\* synthesis advances the clock that names its outcome, so the plan of a
\* booking is the outcome of the latest synthesis run when it is booked.
C35_SupersededPlanNotBooked ==
    \A i \in 1..Len(bookings) : bookings[i].plan_id = bookings[i].clock

\* ------------------------------------------------------------ C36
\* C36: a decision that arrives with a token issued for an earlier plan than
\* the one the session holds is not counted: the event changes no entry of the
\* approval state and dispatches nothing.
C36_StaleTokenNotCounted ==
    [][(/\ response'.status \in {"approved", "rejected"}
        /\ RowExists(db_session)
        /\ response'.message_id[1] # db_session.final_plan.plan_id)
       => /\ db_session'.approval_state = db_session.approval_state
          /\ bookings' = bookings]_vars

\* C37: a session whose current plan is a PlanError never reaches the status
\* approved: a request to approve it leaves the persisted plan and the session
\* status as they were.
C37_ErrorPlanNeverApproved ==
    (RowExists(db_session) /\ db_session.status = "approved")
        => PlanGenerated(db_session.final_plan)

\* C38: when the round that is run after a rejection aborts, the state the
\* session holds is the state it held before the rejection was applied, so
\* that the same rejection can be submitted again and leaves one feedback
\* utterance and a round number one higher.
C38_AbortedRejectionLeavesState ==
    [][(response'.op = "reject_plan" /\ response'.code = 500)
          => active_states' = active_states]_vars

\* ================================== database.py: concurrent approval events
\* Every participant's approval arrives as one event, and each event is handled
\* in one of the server's worker processes.  update_approval_state has no await:
\* the calls of one process run one after the other.  Calls of different
\* processes interleave between the query that loads the row
\* (get_chat_session) and the commit that writes the approval_state column.
MaxProcesses == 2

Call(process) ==
    [pc |-> "received", process |-> process, approval_state |-> EmptyMap,
     all_approved |-> FALSE]

InitConcurrent ==
    /\ \E n \in 2..MaxUsers : user_ids = Registration(n)
    /\ messages_per_volley = 1
    /\ messages_channel = "LastValue"
    /\ recursion_limit = DEFAULT_RECURSION_LIMIT
    /\ db_session = update_chat_session(create_session(1), <<<<>>>>, <<DraftPlan(1)>>,
                                        <<"pending_approval">>, <<1>>)
    /\ pc = "idle"
    /\ node = MasterPlanner
    /\ state = InitialState(<<>>, 0)
    /\ active_states = <<>>
    /\ active_orchestrators = FALSE
    /\ message_mappings = {Mapping(1, u) : u \in Range(user_ids)}
    /\ now = 1
    /\ bookings = <<>>
    /\ response = Resp("none", 0)
    /\ route_log = <<>>
    /\ turn_log = <<>>
    /\ llm_calls = <<>>
    /\ plan_dict = GoodDoc
    /\ validation = NotValidated
    /\ decisions = <<>>
    /\ users = EmptyMap
    /\ budget_per_person = FALSE
    /\ dispatch_pc = "none"
    /\ tasks = <<>>
    /\ run_task_calls = {}
    /\ record_calls \in [Range(user_ids) -> {Call(p) : p \in 1..MaxProcesses}]

\* No other call of the same process is between its query and its commit.
ProcessFree(user_id) ==
    \A other \in DOMAIN record_calls \ {user_id} :
        record_calls[other].process = record_calls[user_id].process
            => record_calls[other].pc # "read"

\* chat_session = get_chat_session(session, session_id);
\* approval_state = chat_session.approval_state or {}
GetChatSession ==
    /\ \E user_id \in DOMAIN record_calls :
          /\ record_calls[user_id].pc = "received"
          /\ ProcessFree(user_id)
          /\ record_calls' = [record_calls EXCEPT
                                 ![user_id].pc = "read",
                                 ![user_id].approval_state = db_session.approval_state]
    /\ UNCHANGED <<validated, approvals, booking, config, graph, server, now, response>>

\* approval_state[user_id] = {...}; chat_session.approval_state = approval_state;
\* session.commit(); the flags are computed on the dict the call holds, and
\* handle_plan_approval starts the bookings when all_approved is set.
CommitApprovalState ==
    /\ \E user_id \in DOMAIN record_calls :
          LET loaded == [db_session EXCEPT !.approval_state = record_calls[user_id].approval_state]
              held == update_approval_state(loaded, user_id, TRUE, Null, now)
              row == [db_session EXCEPT !.approval_state = held.approval_state] IN
          /\ record_calls[user_id].pc = "read"
          /\ record_calls' = [record_calls EXCEPT
                                 ![user_id].pc = "returned",
                                 ![user_id].approval_state = held.approval_state,
                                 ![user_id].all_approved =
                                     all_approved(held.approval_state, user_ids)]
          /\ response' = RecordResp("record", held, user_ids)
          /\ IF all_approved(held.approval_state, user_ids)
             THEN TriggerParallelBookings(row)
             ELSE db_session' = row /\ UNCHANGED bookings
    /\ UNCHANGED <<validated, approvals, booking, config, graph, active_states,
                   active_orchestrators, message_mappings, now>>

NextConcurrent ==
    \/ GetChatSession
    \/ CommitApprovalState

SpecConcurrent == InitConcurrent /\ [][NextConcurrent]_vars

AllReturned ==
    /\ DOMAIN record_calls # {}
    /\ \A user_id \in DOMAIN record_calls : record_calls[user_id].pc = "returned"

\* C39: no approval is lost when the participants of a session approve through
\* events that are handled concurrently: once every record call has returned,
\* the stored approval state holds an approving entry of every participant and
\* at least one of the calls returned all_approved.
C39_NoApprovalLost ==
    AllReturned =>
        /\ Cardinality({u \in DOMAIN db_session.approval_state :
                           db_session.approval_state[u].approved}) = Len(user_ids)
        /\ \E user_id \in DOMAIN record_calls : record_calls[user_id].all_approved

====
